---------------------------- MODULE Spec2Model ----------------------------
(***************************************************************************)
(* Privacy-compliance pipeline: consent check, redaction and audit stages. *)
(* Each stage function is one action; the value it returns is kept in a    *)
(* variable next to the inputs it was called with.                          *)
(***************************************************************************)
EXTENDS Integers, Sequences, FiniteSets, TLC

VARIABLES
    now,        \* reading of the clock (datetime.utcnow / datetime.now)
    consent,    \* call of verify_consent_for_pii_types: inputs and result
    fs,         \* the files: path -> state of the file at that path
    redact,     \* call of redact_sensitive_data: inputs and result
    use_bigquery,   \* AuditLogger.use_bigquery, set by the constructor
    bq,         \* rows of the primary audit sink's table
    logdir,     \* the audit stage's files: name -> state of the file
    history,    \* the log_file_processing_event calls made, in call order
    audit,      \* last call of the audit stage: inputs and result
    ctime,      \* os.path.getctime: path -> time of the file's last change
    inotify,    \* filesystem notifications the observer has not delivered yet
    observer,   \* the global `observer` of the ingestion stage, or None
    running,    \* the observer threads that are alive
    latest_event,   \* file_handler.latest_event: the pending-event slot
    monitor,    \* call of monitor_watched_directory: position and result
    lifecycle,  \* last call of start/stop_file_monitoring and its result
    recorded,   \* the events the handler recorded, in the order recorded
    returned,   \* the payloads monitor_watched_directory returned, in order
    upload,     \* call of upload_file: inputs and result
    detect,     \* call of detect_data: inputs and result
    run         \* the coordinator's position in the pipeline run

auditVars == <<use_bigquery, bq, logdir, history, audit>>
kernelVars == <<ctime, inotify>>
watchVars ==
    <<observer, running, latest_event, monitor, lifecycle, recorded, returned>>
pipeVars == <<upload, detect, run>>
vars ==
    <<now, consent, fs, redact, use_bigquery, bq, logdir, history, audit,
      ctime, inotify, observer, running, latest_event, monitor, lifecycle,
      recorded, returned, upload, detect, run>>

---------------------------------------------------------------------------
(* Bounds of the model *)

MaxTime == 2
MaxFindings == 2
MaxLog == 2
MaxEvents == 2      \* notifications delivered to the handler
MaxCalls == 2       \* payloads returned by monitor_watched_directory
MaxRuns == 1        \* pipeline runs the coordinator starts
MaxExtra == 1       \* log entries beyond the ten a report lists

---------------------------------------------------------------------------
(* PII type labels *)

\* the recognised vocabulary of the detection stage
PIITypes ==
    {"PERSON_NAME", "EMAIL_ADDRESS", "PHONE_NUMBER", "CREDIT_CARD_NUMBER",
     "US_SSN", "US_DRIVER_LICENSE", "US_PASSPORT"}

\* labels a caller passes in pii_findings: three of the vocabulary and one
\* label outside it (the stage functions accept any string)
Labels == {"EMAIL_ADDRESS", "PHONE_NUMBER", "US_PASSPORT", "IP_ADDRESS"}

Findings == {s \in SUBSET Labels : Cardinality(s) <= MaxFindings}

\* pii_findings as the detection stage hands them to redaction: labels of
\* its vocabulary
DetectedFindings == {s \in Findings : s \subseteq PIITypes}

Times == 0..MaxTime

Users == {"user123", "u2"}
NoUser == ""            \* user_id None or ""

\* audit_entries[-10:]
RecentEvents == 10

---------------------------------------------------------------------------
(* Files and paths *)

\* a path is a string, kept as the sequence of its characters; "_redacted"
\* is kept as one symbol
Marker == "_redacted"

NoPath == <<>>            \* file_path None or ""
Null == <<"None">>        \* python None where a path is expected

\* the paths the calls are made with: "a.t", "a", ".a", "d.d/a" and
\* "a_redacted.t" (the name redaction gives the output for "a.t")
SamplePaths ==
    {<<"a", ".", "t">>, <<"a">>, <<".", "a">>,
     <<"d", ".", "d", "/", "a">>, <<"a", Marker, ".", "t">>}

RECURSIVE LastIndexOf(_, _, _)
\* str.rfind: the last index of character c in p[1..i], 0 if none
LastIndexOf(p, c, i) ==
    IF i = 0 THEN 0
    ELSE IF p[i] = c THEN i ELSE LastIndexOf(p, c, i - 1)

\* os.path.splitext: the extension starts at the last dot, if that dot comes
\* after the last separator and some character of the basename before it is
\* not a dot
SplitAt(p) ==
    LET sepIndex == LastIndexOf(p, "/", Len(p))
        dotIndex == LastIndexOf(p, ".", Len(p))
    IN  IF /\ dotIndex > sepIndex
           /\ \E k \in (sepIndex + 1)..(dotIndex - 1) : p[k] # "."
        THEN dotIndex
        ELSE Len(p) + 1

Root(p) == SubSeq(p, 1, SplitAt(p) - 1)
Ext(p) == SubSeq(p, SplitAt(p), Len(p))

\* (faulty variant: the output is written in place)
RedactedPathMutant(p) == p
\* f"{os.path.splitext(file_path)[0]}_redacted{os.path.splitext(file_path)[1]}"
RedactedPath(p) == Root(p) \o <<Marker>> \o Ext(p)

AllPaths == SamplePaths \cup {RedactedPath(p) : p \in SamplePaths}

\* a text is a sequence of tokens: a plain word, an occurrence of a PII type
\* (the token is the type's label), or a mask written by redaction
Word == "word"
FallbackMask == "##########"      \* '█' * 10
DlpMask == "#dlp#"                \* character mask of the primary service

\* an e-mail address whose local part is ten digits ("5551234567@e.com"):
\* an occurrence of EMAIL_ADDRESS in which the PHONE_NUMBER pattern matches
\* too; and what is left of it once that pattern was substituted
DigitEmail == "5551234567@e.com"
DamagedEmail == "##########@e.com"

\* the PII type a token is an occurrence of (the token itself for a word)
TypeOf(token) ==
    IF token \in {DigitEmail, DamagedEmail} THEN "EMAIL_ADDRESS" ELSE token

EmptyText == <<>>
SampleTexts ==
    {<<Word>>,
     <<"EMAIL_ADDRESS", Word, "PHONE_NUMBER", "US_PASSPORT">>,
     <<DigitEmail, "PHONE_NUMBER">>}

\* state of the file at a path
Absent == [kind |-> "absent", text |-> EmptyText]
Unreadable == [kind |-> "unreadable", text |-> EmptyText]  \* open/read raises
File(text) == [kind |-> "file", text |-> text]

NoFiles == [p \in AllPaths |-> Absent]

\* os.path.exists
Exists(files, p) == p \in DOMAIN files /\ files[p].kind # "absent"

\* the watched directory; its name is kept as one symbol of a path
WATCHED_DIR == "watched_dir"
WatchedDir == <<WATCHED_DIR>>
Directory == [kind |-> "dir", text |-> EmptyText]

\* os.path.join, os.path.basename, os.path.dirname
Join(dir, name) == dir \o <<"/">> \o name
Basename(p) == SubSeq(p, LastIndexOf(p, "/", Len(p)) + 1, Len(p))
Dirname(p) == SubSeq(p, 1, LastIndexOf(p, "/", Len(p)) - 1)

\* os.listdir(WATCHED_DIR), as full paths
ListDir(files) ==
    {p \in DOMAIN files : Dirname(p) = WatchedDir /\ Exists(files, p)}

\* the notification the filesystem raises for a write to a path: IN_CREATE
\* for a new file, IN_MODIFY for an existing one
Notification(files, path) ==
    [kind |-> IF Exists(files, path) THEN "modified" ELSE "created",
     src_path |-> path]

\* a write to a path sets the file's change time and, while an observer
\* thread is alive and the path lies in the watched directory
\* (observer.schedule(file_handler, WATCHED_DIR, recursive=False)), queues a
\* notification for it
FileWritten(path) ==
    /\ ctime' = [ctime EXCEPT ![path] = now]
    /\ inotify' = IF running # {} /\ Dirname(path) = WatchedDir
                  THEN Append(inotify, Notification(fs, path))
                  ELSE inotify

---------------------------------------------------------------------------
(* Redaction stage: src/redaction_agent/agent.py *)

\* (faulty variant: a pattern for the passport number as well)
PatternsMutant ==
    {"EMAIL_ADDRESS", "PHONE_NUMBER", "CREDIT_CARD_NUMBER", "US_SSN",
     "PERSON_NAME", "US_PASSPORT"}
\* types the pattern-based masker has a regex for
Patterns ==
    {"EMAIL_ADDRESS", "PHONE_NUMBER", "CREDIT_CARD_NUMBER", "US_SSN",
     "PERSON_NAME"}

\* the orders a list can hold the members of a set in
Orders(set) ==
    {order \in [1..Cardinality(set) -> set] :
        \A i, j \in 1..Cardinality(set) : order[i] = order[j] => i = j}

\* re.sub(patterns[pii_type], mask, token): a plain occurrence of the type
\* is replaced whole; in the digit e-mail the e-mail pattern matches the
\* whole address and the phone pattern its ten digits; no pattern matches
\* what the phone pattern left of it
Sub(pii_type, token) ==
    CASE token = pii_type -> FallbackMask
      [] token = DigitEmail /\ pii_type = "EMAIL_ADDRESS" -> FallbackMask
      [] token = DigitEmail /\ pii_type = "PHONE_NUMBER" -> DamagedEmail
      [] OTHER -> token

RECURSIVE simple_redact_content(_, _)
\* simple_redact_content: for each listed type in turn that has a pattern,
\* every match of the pattern in what the earlier substitutions left is
\* replaced by the fixed mask
simple_redact_content(content, pii_types) ==
    IF pii_types = <<>> THEN content
    ELSE simple_redact_content(
             IF Head(pii_types) \in Patterns
             THEN [i \in 1..Len(content) |->
                      Sub(Head(pii_types), content[i])]
             ELSE content,
             Tail(pii_types))

\* the primary service's deidentify_content with the listed info types: it
\* masks the occurrences of these types
deidentify_content(content, info_types) ==
    [i \in 1..Len(content) |->
        IF TypeOf(content[i]) \in info_types THEN DlpMask ELSE content[i]]

\* consent_results.get(pii_type, False)
ConsentGet(consent_results, t) ==
    IF t \in DOMAIN consent_results THEN consent_results[t] ELSE FALSE

\* (faulty variants: a missing entry counts as consent; every found type is
\* redacted)
PiiToRedactMutant(pii_findings, consent_results) ==
    {t \in pii_findings :
        t \in DOMAIN consent_results /\ ~consent_results[t]}
PiiToRedactAll(pii_findings, consent_results) == pii_findings
\* lines 68-72
PiiToRedact(pii_findings, consent_results) ==
    {t \in pii_findings : ~ConsentGet(consent_results, t)}

\* outcomes of the primary service: GOOGLE_CLOUD_PROJECT not set, the client
\* constructor raises, deidentify_content raises, or it answers
DlpOutcomes == {"no_project", "client_fails", "call_raises", "ok"}

\* outcomes of writing the output: written; open(..., 'w') raises; open
\* truncates the file and write raises
WriteOutcomes == {"ok", "open_fails", "write_fails"}

ErrorNoStatus ==
    [status |-> "none", error |-> TRUE, redacted_file_path |-> Null,
     redacted_pii_types |-> {}]
ErrorResult ==
    [status |-> "error", error |-> TRUE, redacted_file_path |-> Null,
     redacted_pii_types |-> {}]
Success(path, types) ==
    [status |-> "success", error |-> FALSE, redacted_file_path |-> path,
     redacted_pii_types |-> types]

\* lines 138-142: the files after the output is written
WriteOutput(files, path, content, w) ==
    CASE w = "ok" -> [files EXCEPT ![path] = File(content)]
      [] w = "write_fails" -> [files EXCEPT ![path] = File(EmptyText)]
      [] OTHER -> files

\* (faulty variant: no masking once the primary service has failed)
RedactedContentMutant(contents, pii_to_redact, dlp) ==
    IF dlp = "ok"
    THEN deidentify_content(contents, {pii_to_redact[i] :
                                          i \in DOMAIN pii_to_redact})
    ELSE contents
\* lines 82-136: the content to write and the backend that produced it;
\* pii_to_redact is the list, in the order of pii_findings
RedactedContent(contents, pii_to_redact, dlp) ==
    IF dlp = "ok"
    THEN deidentify_content(contents, {pii_to_redact[i] :
                                          i \in DOMAIN pii_to_redact})
    ELSE simple_redact_content(contents, pii_to_redact)

\* a call of the redaction stage; file_contents EmptyText stands for None
\* and for "", which the code treats alike; consent_results has entries for
\* some of the found types (the code reads no other entry)
RedactCall(path, contents, findings, consent_results) ==
    [called |-> FALSE, file_path |-> path, file_contents |-> contents,
     pii_findings |-> findings, consent_results |-> consent_results,
     via |-> "pending", dlp |-> "none", write |-> "none",
     written |-> Null, result |-> ErrorNoStatus]

Idle == RedactCall(NoPath, EmptyText, {}, <<>>)

\* the call returns; next to the result the record keeps the branch taken
\* (via), the outcomes of the primary service and of the write, and the
\* path the call opened for writing (Null if none)
Returns(result, via, dlp, w, written) ==
    redact' = [redact EXCEPT !.called = TRUE, !.result = result,
                             !.via = via, !.dlp = dlp, !.write = w,
                             !.written = written]

\* lines 56-61: missing file_path, or no contents and no file
RedactInvalid ==
    /\ ~redact.called
    /\ \/ redact.file_path = NoPath
       \/ redact.file_contents = EmptyText /\ ~Exists(fs, redact.file_path)
    /\ Returns(ErrorNoStatus, "invalid", "none", "none", Null)
    /\ UNCHANGED <<now, consent, fs, auditVars>>
    /\ UNCHANGED <<kernelVars, watchVars, pipeVars>>

\* lines 64-66: the file cannot be read; the handler at 150-155 answers
RedactUnreadable ==
    /\ ~redact.called
    /\ redact.file_path # NoPath
    /\ redact.file_contents = EmptyText
    /\ Exists(fs, redact.file_path)
    /\ fs[redact.file_path].kind = "unreadable"
    /\ Returns(ErrorResult, "unreadable", "none", "none", Null)
    /\ UNCHANGED <<now, consent, fs, auditVars>>
    /\ UNCHANGED <<kernelVars, watchVars, pipeVars>>

\* the contents the call works on once validation has passed
Readable ==
    /\ redact.file_path # NoPath
    /\ \/ redact.file_contents # EmptyText
       \/ Exists(fs, redact.file_path) /\ fs[redact.file_path].kind = "file"

Contents ==
    IF redact.file_contents # EmptyText THEN redact.file_contents
    ELSE fs[redact.file_path].text

\* lines 74-80: nothing to redact
RedactShortCircuit ==
    /\ ~redact.called
    /\ Readable
    /\ PiiToRedact(redact.pii_findings, redact.consent_results) = {}
    /\ Returns(Success(redact.file_path, {}), "shortcut", "none", "none",
               Null)
    /\ UNCHANGED <<now, consent, fs, auditVars>>
    /\ UNCHANGED <<kernelVars, watchVars, pipeVars>>

\* lines 82-148 and 150-155: primary service or fallback, then the write;
\* the primary service answers with one of dlps, the write with one of ws
RedactWriteWith(dlps, ws) ==
    /\ ~redact.called
    /\ Readable
    /\ LET types == PiiToRedact(redact.pii_findings, redact.consent_results)
           path == RedactedPath(redact.file_path)
       IN  /\ types # {}
           /\ \E dlp \in dlps, w \in ws, pii_to_redact \in Orders(types) :
                /\ fs' = WriteOutput(fs, path,
                                     RedactedContent(Contents, pii_to_redact,
                                                     dlp), w)
                /\ IF w = "open_fails"
                   THEN UNCHANGED kernelVars
                   ELSE FileWritten(path)
                /\ Returns(IF w = "ok" THEN Success(path, types)
                           ELSE ErrorResult,
                           IF dlp = "ok" THEN "dlp" ELSE "fallback",
                           dlp, w, path)
    /\ UNCHANGED <<now, consent, auditVars>>
    /\ UNCHANGED <<watchVars, pipeVars>>

RedactWrite == RedactWriteWith(DlpOutcomes, WriteOutcomes)

redact_sensitive_data ==
    RedactInvalid \/ RedactUnreadable \/ RedactShortCircuit \/ RedactWrite

\* the files a call starts with: the file at its path is absent, unreadable
\* or holds a text, and a file may already stand at the output's path
InitialFiles(call) ==
    {[p \in AllPaths |->
        IF p = call.file_path THEN own
        ELSE IF p = RedactedPath(call.file_path) THEN other
        ELSE Absent] :
     own \in {Absent, Unreadable} \cup {File(t) : t \in SampleTexts},
     other \in {Absent, File(<<Word>>)}}

---------------------------------------------------------------------------
(* Audit stage: src/audit_agent/agent.py *)

AUDIT_LOG_FILE == "audit_log.jsonl"
COMPLIANCE_REPORT_FILE == "compliance_report.json"
DefaultExportFile == "audit_export.csv"

AuditFiles == {AUDIT_LOG_FILE, COMPLIANCE_REPORT_FILE, DefaultExportFile}

\* a file of the audit stage is missing or holds a sequence of lines
Missing == [exists |-> FALSE, lines |-> <<>>]
Holding(lines) == [exists |-> TRUE, lines |-> lines]

\* a line holding json.dumps(entry)
JsonLine(entry) == [kind |-> "json", entry |-> entry]
\* lines of the CSV export: the header, and one row per entry
CsvHeader == [kind |-> "csv_header", entry |-> <<>>]
CsvRow(entry) == [kind |-> "csv_row", entry |-> entry]
\* the report artifact is one JSON document
ReportDoc(report) == [kind |-> "report", entry |-> report]

\* the events the audit stage is called with: user, file, findings, consent
\* results and the redaction result of the run (a success with an output
\* file, an error with status, an error without a status field)
SampleEvents ==
    {[file_path |-> <<"a", ".", "t">>, user_id |-> "user123",
      pii_findings |-> {"EMAIL_ADDRESS", "PHONE_NUMBER"},
      consent_results |-> [t \in {"EMAIL_ADDRESS", "PHONE_NUMBER"} |->
                              t = "EMAIL_ADDRESS"],
      redaction_result |->
          Success(<<"a", Marker, ".", "t">>, {"PHONE_NUMBER"})],
     [file_path |-> <<".", "a">>, user_id |-> "u2",
      pii_findings |-> {"US_PASSPORT"},
      consent_results |-> [t \in {"US_PASSPORT"} |-> FALSE],
      redaction_result |-> ErrorResult],
     [file_path |-> NoPath, user_id |-> "user123",
      pii_findings |-> {}, consent_results |-> <<>>,
      redaction_result |-> ErrorNoStatus]}

\* redaction_result.get('status', 'unknown')
ProcessingStatus(result) ==
    IF result.status = "none" THEN "unknown" ELSE result.status

\* (faulty variant: anything but an error status is compliant)
ComplianceStatusMutant(result) ==
    IF result.status # "error" THEN "compliant" ELSE "non_compliant"
\* "compliant" if redaction_result.get('status') == 'success' else ...
ComplianceStatus(result) ==
    IF result.status = "success" THEN "compliant" ELSE "non_compliant"

\* lines 123-135: the audit entry of an event
AuditEntry(event, clock) ==
    [event_type |-> "file_processing_completed",
     timestamp |-> clock,
     file_path |-> event.file_path,
     user_id |-> event.user_id,
     pii_types_detected |-> event.pii_findings,
     consent_status |-> event.consent_results,
     redacted_pii_types |-> event.redaction_result.redacted_pii_types,
     redacted_file_path |-> event.redaction_result.redacted_file_path,
     processing_status |-> ProcessingStatus(event.redaction_result),
     compliance_status |-> ComplianceStatus(event.redaction_result)]

\* outcomes of insert_rows_json: the row is accepted, the call reports
\* errors, or it raises
InsertOutcomes == {"ok", "errors", "raises"}

\* open(name, 'a') and write: appended
AppendLine(dir, name, line) ==
    [dir EXCEPT ![name] = Holding(dir[name].lines \o <<line>>)]

\* open(name, 'w') and write: replaced
Overwrite(dir, name, lines) == [dir EXCEPT ![name] = Holding(lines)]

\* AuditLogger.log_audit_event with _log_to_bigquery and _log_to_local_file,
\* for the entry built at lines 123-135. insert is what the primary sink does
\* with the row (one of inserts), local_ok whether the local file can be
\* appended to (one of locals).
RecordEventWith(event, inserts, locals) ==
    \E insert \in inserts, local_ok \in locals :
       LET entry == AuditEntry(event, now)
           success == IF use_bigquery THEN insert = "ok" ELSE local_ok
       IN  /\ bq' = IF use_bigquery /\ insert = "ok"
                    THEN Append(bq, entry) ELSE bq
           /\ logdir' = IF ~use_bigquery /\ local_ok
                        THEN AppendLine(logdir, AUDIT_LOG_FILE,
                                        JsonLine(entry))
                        ELSE logdir
           /\ audit' = [op |-> "log", event |-> event,
                        audit_entry |-> entry, audit_logged |-> success,
                        insert |-> insert, local_ok |-> local_ok]
           /\ history' = Append(history,
                            [entry |-> entry, audit_logged |-> success])

RecordEvent(event) == RecordEventWith(event, InsertOutcomes, BOOLEAN)

\* log_file_processing_event, called with an event
LogFileProcessingEvent ==
    /\ Len(history) < MaxLog
    /\ \E event \in SampleEvents : RecordEvent(event)
    /\ UNCHANGED <<now, consent, fs, redact, use_bigquery>>
    /\ UNCHANGED <<kernelVars, watchVars, pipeVars>>

\* lines of a log that were not written whole by the audit stage: a blank
\* line, a line cut short (both rejected by json.loads), and a line holding
\* JSON text that is not an object ("42"), which json.loads returns as a
\* value without a get method
BlankLine == [kind |-> "blank", entry |-> <<>>]
TruncatedLine == [kind |-> "truncated", entry |-> <<>>]
NonObject == [json |-> "42"]
NonObjectLine == JsonLine(NonObject)

\* entry.get(...) raises AttributeError for some entry of the list
GetRaises(entries) == \E i \in 1..Len(entries) : entries[i] = NonObject

RECURSIVE ObjectsBefore(_)
\* the entries in front of the first one whose get raises
ObjectsBefore(entries) ==
    IF entries = <<>> \/ entries[1] = NonObject THEN <<>>
    ELSE <<entries[1]>> \o ObjectsBefore(Tail(entries))

\* lines 169-178 and 255-263: the entries read back from the local log;
\* a line json.loads rejects is skipped
RECURSIVE ParsedEntries(_)
ParsedEntries(lines) ==
    IF lines = <<>> THEN <<>>
    ELSE IF lines[1].kind = "json"
         THEN <<lines[1].entry>> \o ParsedEntries(Tail(lines))
         ELSE ParsedEntries(Tail(lines))

ReadAuditLog(dir) ==
    IF dir[AUDIT_LOG_FILE].exists
    THEN ParsedEntries(dir[AUDIT_LOG_FILE].lines)
    ELSE <<>>

RECURSIVE FilterUser(_, _)
\* [entry for entry in audit_entries if entry.get('user_id') == user_id]
FilterUser(entries, user) ==
    IF entries = <<>> THEN <<>>
    ELSE IF entries[1].user_id = user
         THEN <<entries[1]>> \o FilterUser(Tail(entries), user)
         ELSE FilterUser(Tail(entries), user)

\* (faulty variant: every entry counts as compliant)
CountCompliantMutant(entries) == Len(entries)
\* line 186: the entries whose compliance_status is 'compliant'
CountCompliant(entries) ==
    Cardinality({i \in 1..Len(entries) :
                    entries[i].compliance_status = "compliant"})

\* (faulty variant: no entries count as full compliance)
ComplianceRateMutant(compliant, total) ==
    IF total > 0 THEN (2 * compliant * 10000 + total) \div (2 * total)
    ELSE 10000
\* round((compliant_files / total_files_processed * 100)
\*       if total_files_processed > 0 else 0, 2), in hundredths of a percent
ComplianceRate(compliant, total) ==
    IF total > 0 THEN (2 * compliant * 10000 + total) \div (2 * total)
    ELSE 0

\* lines 184-216: the report over the entries
ComplianceReport(entries, user, clock) ==
    [report_generated_at |-> clock,
     user_id_filter |-> user,
     total_files_processed |-> Len(entries),
     compliant_files |-> CountCompliant(entries),
     non_compliant_files |-> Len(entries) - CountCompliant(entries),
     compliance_rate |-> ComplianceRate(CountCompliant(entries), Len(entries)),
     pii_types_detected |->
         UNION {entries[i].pii_types_detected : i \in 1..Len(entries)},
     pii_types_redacted |->
         UNION {entries[i].redacted_pii_types : i \in 1..Len(entries)},
     recent_processing_events |->
         SubSeq(entries, IF Len(entries) > RecentEvents
                         THEN Len(entries) - RecentEvents + 1 ELSE 1,
                Len(entries))]

\* generate_compliance_report; user NoUser stands for no user_id filter,
\* write_ok for whether the report artifact can be written
GenerateComplianceReport ==
    /\ \E user \in Users \cup {NoUser}, write_ok \in BOOLEAN :
         LET all == ReadAuditLog(logdir)
             raised == GetRaises(all)      \* at line 182, or at line 186
             entries == IF raised THEN <<>>
                        ELSE IF user # NoUser THEN FilterUser(all, user)
                        ELSE all
             report == ComplianceReport(entries, user, now)
             done == ~raised /\ write_ok
         IN  /\ logdir' = IF done
                          THEN Overwrite(logdir, COMPLIANCE_REPORT_FILE,
                                         <<ReportDoc(report)>>)
                          ELSE logdir
             /\ audit' = [op |-> "report", user_id |-> user,
                          write_ok |-> write_ok,
                          report_generated |-> done,
                          error |-> ~done,
                          compliance_report |-> report]
    /\ UNCHANGED <<now, consent, fs, redact, use_bigquery, bq, history>>
    /\ UNCHANGED <<kernelVars, watchVars, pipeVars>>

\* the names export_audit_to_csv is called with: the default and the name
\* of the audit log itself
OutputFiles == {DefaultExportFile, AUDIT_LOG_FILE}

CsvLines(entries) ==
    <<CsvHeader>> \o [i \in 1..Len(entries) |-> CsvRow(entries[i])]

\* (faulty variant: a log without entries is exported)
NothingToExportMutant(dir, entries) == ~dir[AUDIT_LOG_FILE].exists
\* lines 249-253 and 265-269: no audit log file, or no entry read from it
NothingToExport(dir, entries) ==
    ~dir[AUDIT_LOG_FILE].exists \/ entries = <<>>

\* export_audit_to_csv; write_ok for whether output_file can be written
ExportAuditToCsv ==
    /\ \E output_file \in OutputFiles, write_ok \in BOOLEAN :
         LET entries == ReadAuditLog(logdir)
             nothing == NothingToExport(logdir, entries)
             opened == ~nothing /\ write_ok         \* line 272
             done == opened /\ ~GetRaises(entries)  \* lines 283-296
         IN  /\ logdir' = IF opened
                          THEN Overwrite(logdir, output_file,
                                         CsvLines(ObjectsBefore(entries)))
                          ELSE logdir
             /\ audit' = [op |-> "export", output_file |-> output_file,
                          write_ok |-> write_ok,
                          exported |-> done, error |-> ~done,
                          entries_exported |->
                              IF done THEN Len(entries) ELSE 0]
    /\ UNCHANGED <<now, consent, fs, redact, use_bigquery, bq, history>>
    /\ UNCHANGED <<kernelVars, watchVars, pipeVars>>

NoAuditCall == [op |-> "none"]

\* the audit stage before any call, with the local files missing
AuditAtRest ==
    /\ use_bigquery = FALSE
    /\ bq = <<>>
    /\ logdir = [f \in AuditFiles |-> Missing]
    /\ history = <<>>
    /\ audit = NoAuditCall

---------------------------------------------------------------------------
(* Consent stage: src/consent_agent/agent.py *)

\* values of a record's valid_until field: None, a datetime the clock can
\* be compared with, or a value for which `utcnow() > valid_until` raises
\* (a timezone-aware datetime, a string)
Unset == <<"unset">>
At(t) == <<"at", t>>
Incomparable == <<"incomparable">>
ValidUntils == {Unset, Incomparable} \cup {At(t) : t \in Times}

ConsentRecords == [granted : BOOLEAN, valid_until : ValidUntils]

LOCAL_CONSENT_DB ==
    [u \in {"user123"} |->
        [t \in PIITypes |->
            [granted |-> t \in {"EMAIL_ADDRESS", "PERSON_NAME"},
             valid_until |-> Unset]]]

\* what the primary store answers for the user's document: the client or
\* the get raises (reachable = FALSE), the document does not exist, or it
\* exists with consent_data = data
StoreAnswers(findings) ==
    {[reachable |-> FALSE, exists |-> FALSE, data |-> <<>>],
     [reachable |-> TRUE, exists |-> FALSE, data |-> <<>>]}
    \cup
    UNION {{[reachable |-> TRUE, exists |-> TRUE, data |-> d] :
                d \in [dom -> ConsentRecords]} : dom \in SUBSET findings}

\* python: consent_data.get(pii_type, {}) has an entry
HasEntry(table, t) == t \in DOMAIN table

\* `if valid_until and datetime.utcnow() > valid_until`
Expired(vu, clock) == vu[1] = "at" /\ clock > vu[2]

\* lines 60-68: one type resolved from the primary record
PrimaryLookup(data, t, clock) ==
    IF ~HasEntry(data, t) THEN FALSE
    ELSE IF Expired(data[t].valid_until, clock) THEN FALSE
         ELSE data[t].granted

\* the comparison at line 65 raises for some requested type
CompareRaises(data, findings) ==
    \E t \in findings :
        HasEntry(data, t) /\ data[t].valid_until = Incomparable

\* the table of the local fallback for a user: LOCAL_CONSENT_DB.get(user_id, {})
LocalTable(user) ==
    IF user \in DOMAIN LOCAL_CONSENT_DB THEN LOCAL_CONSENT_DB[user] ELSE <<>>

\* (faulty variant: a missing entry fails open)
LocalLookupMutant(user, t) ==
    IF HasEntry(LocalTable(user), t) THEN LocalTable(user)[t].granted ELSE TRUE
\* LOCAL_CONSENT_DB.get(user_id, {}).get(pii_type, {}).get('granted', False)
LocalLookup(user, t) ==
    IF HasEntry(LocalTable(user), t) THEN LocalTable(user)[t].granted ELSE FALSE

\* the results come from the primary record: the store answered, the
\* document exists and the loop over the types ran to its end
UsesPrimary(store, findings) ==
    store.reachable /\ store.exists /\ ~CompareRaises(store.data, findings)

\* lines 44-79
ConsentResults(user, findings, store, clock) ==
    IF UsesPrimary(store, findings)
    THEN [t \in findings |-> PrimaryLookup(store.data, t, clock)]
    ELSE [t \in findings |-> LocalLookup(user, t)]

\* the value verify_consent_for_pii_types returns
verify_consent_for_pii_types(user, findings, store, clock) ==
    IF user = NoUser \/ findings = {}
    THEN [error |-> TRUE, status |-> "none", has_results |-> FALSE,
          consent_results |-> <<>>]
    ELSE [error |-> FALSE, status |-> "verified", has_results |-> TRUE,
          consent_results |-> ConsentResults(user, findings, store, clock)]

\* a call of the consent stage: its event and the primary store's answer
ConsentCall(user, findings, store) ==
    [called |-> FALSE, user_id |-> user, pii_findings |-> findings,
     store |-> store, clock |-> 0, result |-> <<>>]

NoConsentCall ==
    ConsentCall(NoUser, {},
                [reachable |-> FALSE, exists |-> FALSE, data |-> <<>>])

\* the call runs at the current clock reading and returns
VerifyConsent ==
    /\ ~consent.called
    /\ consent' = [consent EXCEPT
                      !.called = TRUE,
                      !.clock = now,
                      !.result = verify_consent_for_pii_types(
                                    consent.user_id, consent.pii_findings,
                                    consent.store, now)]
    /\ UNCHANGED <<now, fs, redact, auditVars>>
    /\ UNCHANGED <<kernelVars, watchVars, pipeVars>>

\* time passes
Tick ==
    /\ now < MaxTime
    /\ now' = now + 1
    /\ UNCHANGED <<consent, fs, redact, auditVars>>
    /\ UNCHANGED <<kernelVars, watchVars, pipeVars>>

---------------------------------------------------------------------------
(* Ingestion stage: src/watchdog_agent/agent.py *)

\* the files of the watched directory the events are about: "watched_dir/a.t"
\* and "watched_dir/b"
WatchedFiles ==
    {Join(WatchedDir, <<"a", ".", "t">>), Join(WatchedDir, <<"b">>)}

WatchPaths == {WatchedDir} \cup WatchedFiles

\* self.latest_event = None
NoEvent == [event_type |-> "none", file_path |-> NoPath, timestamp |-> 0]

\* `observer = None`, and the observers a call of Observer() can create
NoObserver == 0
ObserverIds == {1, 2}

\* lines 19-23 and 27-31: the event built for a notification of a file
EventOf(notification, clock) ==
    [event_type |-> IF notification.kind = "created"
                    THEN "file_created" ELSE "file_modified",
     file_path |-> notification.src_path,
     timestamp |-> clock]

\* (faulty variant: a pending event is kept and the new one dropped)
HandlerMutant(slot, notification, clock) ==
    IF slot # NoEvent THEN slot ELSE EventOf(notification, clock)
\* FileIngestionHandler.on_created / on_modified: the slot after the handler
\* ran for a notification of a file (event.is_directory is false); the
\* assignment does not look at what the slot held
Handler(slot, notification, clock) == EventOf(notification, clock)

\* calls of monitor_watched_directory that have read the slot and returned
Done ==
    Cardinality({j \in 1..Len(returned) : returned[j].payload.from = "event"})

\* calls of monitor_watched_directory that have read the slot
Begun == Done + IF monitor.pc = "clearing" THEN 1 ELSE 0

\* the observer thread delivers the oldest notification to the handler,
\* which overwrites the slot; the event it was called for is noted with the
\* number of slot reads begun and completed before it
Deliver ==
    /\ running # {}
    /\ inotify # <<>>
    /\ latest_event' = Handler(latest_event, Head(inotify), now)
    /\ inotify' = Tail(inotify)
    /\ recorded' = Append(recorded, [event |-> EventOf(Head(inotify), now),
                                     begun |-> Begun, done |-> Done])
    /\ UNCHANGED <<now, consent, fs, redact, auditVars, ctime>>
    /\ UNCHANGED <<observer, running, monitor, lifecycle, returned, pipeVars>>

on_created == inotify # <<>> /\ Head(inotify).kind = "created" /\ Deliver

on_modified == inotify # <<>> /\ Head(inotify).kind = "modified" /\ Deliver

\* a file of the watched directory is created, or written again, by its owner
FileDropped ==
    /\ Exists(fs, WatchedDir)
    /\ Len(recorded) + Len(inotify) < MaxEvents
    /\ \E path \in WatchedFiles :
         /\ fs' = [fs EXCEPT ![path] = File(<<Word>>)]
         /\ FileWritten(path)
    /\ UNCHANGED <<now, consent, redact, auditVars, watchVars, pipeVars>>

\* (faulty variant: a new observer is started on every call)
InactiveMutant == TRUE
\* line 47: `if observer is None`
Inactive == observer = NoObserver

Reply(op, status) == [op |-> op, status |-> status]
NoReply == Reply("none", "none")

\* start_file_monitoring: os.makedirs(WATCHED_DIR, exist_ok=True), then a new
\* observer is scheduled and started unless one is held
start_file_monitoring ==
    /\ fs' = [fs EXCEPT ![WatchedDir] = Directory]
    /\ IF Inactive
       THEN /\ ObserverIds \ running # {}
            /\ LET id == CHOOSE n \in ObserverIds \ running : TRUE
               IN  /\ observer' = id
                   /\ running' = running \cup {id}
            /\ lifecycle' = Reply("start", "monitoring_started")
       ELSE /\ UNCHANGED <<observer, running>>
            /\ lifecycle' = Reply("start", "already_monitoring")
    /\ UNCHANGED <<now, consent, redact, auditVars, kernelVars>>
    /\ UNCHANGED <<latest_event, monitor, recorded, returned, pipeVars>>

\* stop_file_monitoring: observer.stop(), observer.join(), observer = None;
\* the notifications the stopped thread had not delivered are dropped
stop_file_monitoring ==
    /\ IF observer # NoObserver
       THEN /\ running' = running \ {observer}
            /\ observer' = NoObserver
            /\ inotify' = IF running' = {} THEN <<>> ELSE inotify
            /\ lifecycle' = Reply("stop", "monitoring_stopped")
       ELSE /\ UNCHANGED <<observer, running, inotify>>
            /\ lifecycle' = Reply("stop", "not_monitoring")
    /\ UNCHANGED <<now, consent, fs, redact, auditVars, ctime>>
    /\ UNCHANGED <<latest_event, monitor, recorded, returned, pipeVars>>

\* results of monitor_watched_directory; `from` notes the branch that built
\* a payload (the slot or the directory scan)
MonitorError ==
    [kind |-> "error", from |-> "none", file_path |-> NoPath,
     user_id |-> NoUser, timestamp |-> 0]
MonitorMessage ==
    [kind |-> "message", from |-> "none", file_path |-> NoPath,
     user_id |-> NoUser, timestamp |-> 0]
NoResult ==
    [kind |-> "none", from |-> "none", file_path |-> NoPath,
     user_id |-> NoUser, timestamp |-> 0]
\* lines 122-127 and 142-147    ("user_id": "user123")
Payload(path, timestamp, from) ==
    [kind |-> "payload", from |-> from, file_path |-> path,
     user_id |-> "user123", timestamp |-> timestamp]

\* a call of monitor_watched_directory: where it stands (idle, or between
\* reading the slot at line 119 and clearing it at line 130), the event it
\* read, the number of events recorded when it read, and its last result
MonitorIdle ==
    [pc |-> "idle", event |-> NoEvent, read_at |-> 0, result |-> NoResult]

\* the call returns a result that is no payload
MonitorAnswers(result) ==
    /\ monitor' = [monitor EXCEPT !.result = result]
    /\ UNCHANGED returned

\* the call returns a payload
MonitorReturns(payload, read_at) ==
    /\ monitor' = [pc |-> "idle", event |-> NoEvent, read_at |-> 0,
                   result |-> payload]
    /\ returned' = Append(returned, [payload |-> payload, read_at |-> read_at,
                                     at |-> Len(recorded)])

\* lines 114-115
MonitorDirMissing ==
    /\ monitor.pc = "idle"
    /\ ~Exists(fs, WatchedDir)
    /\ MonitorAnswers(MonitorError)
    /\ UNCHANGED <<now, consent, fs, redact, auditVars, kernelVars>>
    /\ UNCHANGED <<observer, running, latest_event, lifecycle, recorded,
                   pipeVars>>

\* lines 118-127: the slot holds an event, which the call reads
MonitorRead ==
    /\ monitor.pc = "idle"
    /\ Len(returned) < MaxCalls
    /\ Exists(fs, WatchedDir)
    /\ latest_event # NoEvent
    /\ monitor' = [monitor EXCEPT !.pc = "clearing", !.event = latest_event,
                                  !.read_at = Len(recorded)]
    /\ UNCHANGED <<now, consent, fs, redact, auditVars, kernelVars>>
    /\ UNCHANGED <<observer, running, latest_event, lifecycle, recorded,
                   returned, pipeVars>>

\* lines 130-131: the slot is cleared and the payload returned
MonitorClear ==
    /\ monitor.pc = "clearing"
    /\ latest_event' = NoEvent
    /\ MonitorReturns(Payload(monitor.event.file_path,
                              monitor.event.timestamp, "event"),
                      monitor.read_at)
    /\ UNCHANGED <<now, consent, fs, redact, auditVars, kernelVars>>
    /\ UNCHANGED <<observer, running, lifecycle, recorded, pipeVars>>

\* max(files, key=getctime): a file no other file is more recent than
LatestFiles(files, times) ==
    {f \in files : \A g \in files : times[g] <= times[f]}

\* lines 133-148: no pending event, the directory is scanned
MonitorScan ==
    /\ monitor.pc = "idle"
    /\ Len(returned) < MaxCalls
    /\ Exists(fs, WatchedDir)
    /\ latest_event = NoEvent
    /\ IF ListDir(fs) = {}
       THEN MonitorAnswers(MonitorMessage)
       ELSE \E latest_file \in LatestFiles(ListDir(fs), ctime) :
                MonitorReturns(Payload(latest_file, now, "scan"), 0)
    /\ UNCHANGED <<now, consent, fs, redact, auditVars, kernelVars>>
    /\ UNCHANGED <<observer, running, latest_event, lifecycle, recorded,
                   pipeVars>>

monitor_watched_directory ==
    MonitorDirMissing \/ MonitorRead \/ MonitorClear \/ MonitorScan

\* a call of upload_file
UploadCall(source_path, user) ==
    [called |-> FALSE, source_path |-> source_path, user_id |-> user,
     raised |-> FALSE, result |-> NoResult]

NoUpload == [UploadCall(NoPath, NoUser) EXCEPT !.called = TRUE]

\* shutil.copy2(source_path, dest_path) raises: the source is missing or
\* cannot be read, or source and destination are the same file
CopyRaises(files, source_path, dest_path) ==
    \/ ~(source_path \in DOMAIN files /\ files[source_path].kind = "file")
    \/ source_path = dest_path

\* upload_file: the copy into the watched directory, then the payload; an
\* exception of copy2 leaves the function
upload_file ==
    /\ ~upload.called
    /\ LET dest_path == Join(WatchedDir, Basename(upload.source_path))
       IN  IF CopyRaises(fs, upload.source_path, dest_path)
           THEN /\ fs' = [fs EXCEPT ![WatchedDir] = Directory]
                /\ upload' = [upload EXCEPT !.called = TRUE, !.raised = TRUE]
                /\ UNCHANGED kernelVars
           ELSE /\ fs' = [fs EXCEPT ![WatchedDir] = Directory,
                                   ![dest_path] = fs[upload.source_path]]
                /\ FileWritten(dest_path)
                /\ upload' = [upload EXCEPT
                                 !.called = TRUE,
                                 !.result =
                                     [Payload(dest_path, now, "upload")
                                         EXCEPT !.user_id = upload.user_id]]
    /\ UNCHANGED <<now, consent, redact, auditVars, watchVars>>
    /\ UNCHANGED <<detect, run>>

\* the ingestion stage before any call, with no observer
WatchAtRest ==
    /\ inotify = <<>>
    /\ observer = NoObserver
    /\ running = {}
    /\ latest_event = NoEvent
    /\ monitor = MonitorIdle
    /\ lifecycle = NoReply
    /\ recorded = <<>>
    /\ returned = <<>>

---------------------------------------------------------------------------
(* Detection stage: src/data_detection_agent/agent.py *)

\* analyzer.analyze(text=content, entities=[...]): the types of the
\* vocabulary that occur in the text, deduplicated
Analyze(content) ==
    {TypeOf(content[i]) : i \in 1..Len(content)} \cap PIITypes

\* outcomes of the detection engine: AnalyzerEngine() or analyze raises, or
\* it answers
EngineOutcomes == {"raises", "ok"}

\* a call of detect_data with the event's file_path
DetectCall(path) ==
    [called |-> FALSE, file_path |-> path, raised |-> FALSE,
     status |-> "none", pii_findings |-> {}]

NoDetect == [DetectCall(NoPath) EXCEPT !.called = TRUE]

\* line 12: open(file_path, "r") raises for None, a missing file, a file
\* that cannot be read, a directory
OpenRaises(files, path) ==
    ~(path \in DOMAIN files /\ files[path].kind = "file")

\* detect_data, with the outcome of the engine: nothing in it catches an
\* exception
DetectData(engine) ==
    /\ ~detect.called
    /\ detect' =
          IF OpenRaises(fs, detect.file_path) \/ engine = "raises"
          THEN [detect EXCEPT !.called = TRUE, !.raised = TRUE]
          ELSE [detect EXCEPT
                   !.called = TRUE,
                   !.status = "scanned",
                   !.pii_findings = Analyze(fs[detect.file_path].text)]
    /\ UNCHANGED <<now, consent, fs, redact, auditVars, kernelVars>>
    /\ UNCHANGED <<watchVars, upload, run>>

---------------------------------------------------------------------------
(* The pipeline run: src/coordinator_agent/agent.py passes each stage's     *)
(* result to the next stage                                                 *)

\* the event record threaded through the stages of a run
RunEvent(payload) ==
    [file_path |-> payload.file_path, user_id |-> payload.user_id,
     timestamp |-> payload.timestamp, pii_findings |-> {},
     consent_results |-> <<>>, redaction_result |-> ErrorNoStatus]

\* what the services outside the pipeline do while it runs: the detection
\* engine, the primary consent store (unreachable, or holding a record that
\* grants every found type), the primary redaction service, the write of
\* the output, the primary audit sink and the local audit log
Environment(engine, store, dlp, write, local_ok) ==
    [engine |-> engine, store |-> store, dlp |-> dlp, write |-> write,
     insert |-> "ok", local_ok |-> local_ok]

Environments ==
    {Environment(engine, store, dlp, write, local_ok) :
        engine \in {"ok"}, store \in {"unreachable", "grants"},
        dlp \in {"no_project", "ok"}, write \in {"ok", "open_fails"},
        local_ok \in BOOLEAN}
    \cup {Environment("raises", "unreachable", "ok", "ok", TRUE)}

\* the coordinator: the stage whose call comes next, the number of payloads
\* of monitor_watched_directory passed on so far, whether the payload of
\* upload_file was passed on, the event of the run, and the environment
NoRun ==
    [stage |-> "none", n |-> 0, uploaded |-> FALSE,
     event |-> RunEvent(NoResult),
     env |-> Environment("ok", "unreachable", "ok", "ok", TRUE)]

\* the payloads returned by the ingestion stage and not passed on yet
PendingPayloads ==
    (IF monitor.pc = "idle" /\ Len(returned) > run.n
     THEN {returned[Len(returned)].payload} ELSE {})
    \cup
    (IF upload.called /\ ~upload.raised /\ ~run.uploaded
     THEN {upload.result} ELSE {})

\* the payload of the ingestion stage goes to detect_data
ToDetect ==
    /\ run.stage = "ingest"
    /\ run.n + (IF run.uploaded THEN 1 ELSE 0) < MaxRuns
    /\ \E payload \in PendingPayloads :
         /\ detect' = DetectCall(payload.file_path)
         /\ run' = [run EXCEPT
                       !.stage = "detect",
                       !.n = IF payload.from = "upload" THEN run.n
                             ELSE Len(returned),
                       !.uploaded = run.uploaded \/ payload.from = "upload",
                       !.event = RunEvent(payload)]
    /\ UNCHANGED <<now, consent, fs, redact, auditVars, kernelVars>>
    /\ UNCHANGED <<watchVars, upload>>

\* the exception of detect_data reaches the coordinator: the run ends
DetectFailed ==
    /\ run.stage = "detect"
    /\ detect.called
    /\ detect.raised
    /\ run' = [run EXCEPT !.stage = "ingest"]
    /\ UNCHANGED <<now, consent, fs, redact, auditVars, kernelVars>>
    /\ UNCHANGED <<watchVars, upload, detect>>

\* what the primary consent store answers in a run
RunStore(findings) ==
    IF run.env.store = "unreachable"
    THEN [reachable |-> FALSE, exists |-> FALSE, data |-> <<>>]
    ELSE [reachable |-> TRUE, exists |-> TRUE,
          data |-> [t \in findings |->
                       [granted |-> TRUE, valid_until |-> Unset]]]

\* the findings go to verify_consent_for_pii_types
ToConsent ==
    /\ run.stage = "detect"
    /\ detect.called
    /\ ~detect.raised
    /\ consent' = ConsentCall(run.event.user_id, detect.pii_findings,
                              RunStore(detect.pii_findings))
    /\ run' = [run EXCEPT !.stage = "consent",
                          !.event.pii_findings = detect.pii_findings]
    /\ UNCHANGED <<now, fs, redact, auditVars, kernelVars>>
    /\ UNCHANGED <<watchVars, upload, detect>>

\* the consent results (none if the consent stage answered with an error)
\* go to redact_sensitive_data
ToRedact ==
    /\ run.stage = "consent"
    /\ consent.called
    /\ LET consent_results == IF consent.result.has_results
                              THEN consent.result.consent_results
                              ELSE <<>>
       IN  /\ redact' = RedactCall(run.event.file_path, EmptyText,
                                   run.event.pii_findings, consent_results)
           /\ run' = [run EXCEPT !.stage = "redact",
                                 !.event.consent_results = consent_results]
    /\ UNCHANGED <<now, consent, fs, auditVars, kernelVars>>
    /\ UNCHANGED <<watchVars, upload, detect>>

\* the redaction result goes to log_file_processing_event, which ends the run
ToAudit ==
    /\ run.stage = "redact"
    /\ redact.called
    /\ RecordEventWith([run.event EXCEPT !.redaction_result = redact.result],
                       {run.env.insert}, {run.env.local_ok})
    /\ run' = [run EXCEPT !.stage = "ingest",
                          !.event.redaction_result = redact.result]
    /\ UNCHANGED <<now, consent, fs, redact, use_bigquery, kernelVars>>
    /\ UNCHANGED <<watchVars, upload, detect>>

\* the owner of the file a run works on removes it, or takes away the
\* permission to read it (a change of attributes, notified as modified)
FileWithdrawn ==
    /\ run.stage \in {"detect", "consent", "redact"}
    /\ LET path == run.event.file_path
       IN  /\ path \in ListDir(fs)
           /\ \/ /\ fs' = [fs EXCEPT ![path] = Absent]
                 /\ UNCHANGED kernelVars
              \/ /\ fs[path].kind = "file"
                 /\ fs' = [fs EXCEPT ![path] = Unreadable]
                 /\ FileWritten(path)
    /\ UNCHANGED <<now, consent, redact, auditVars, watchVars, pipeVars>>

\* the stages before any call
PipelineAtRest ==
    /\ upload = NoUpload
    /\ detect = NoDetect
    /\ run = NoRun

---------------------------------------------------------------------------
(* Specifications: one per stage, each with the other stages at rest *)

InitConsent ==
    /\ now = 0
    /\ \E user \in Users \cup {NoUser}, findings \in Findings :
         \E store \in StoreAnswers(findings) :
           consent = ConsentCall(user, findings, store)
    /\ fs = NoFiles
    /\ redact = Idle
    /\ AuditAtRest
    /\ ctime = [p \in AllPaths |-> 0]
    /\ WatchAtRest
    /\ PipelineAtRest

NextConsent == VerifyConsent \/ Tick

SpecConsent == InitConsent /\ [][NextConsent]_vars

InitRedact ==
    /\ now = 0
    /\ consent = NoConsentCall
    /\ \E path \in SamplePaths \cup {NoPath},
          contents \in SampleTexts \cup {EmptyText},
          findings \in DetectedFindings :
         \E dom \in SUBSET findings :
           \E consent_results \in [dom -> BOOLEAN] :
             redact = RedactCall(path, contents, findings, consent_results)
    /\ fs \in InitialFiles(redact)
    /\ AuditAtRest
    /\ ctime = [p \in AllPaths |-> 0]
    /\ WatchAtRest
    /\ PipelineAtRest

NextRedact == redact_sensitive_data

SpecRedact == InitRedact /\ [][NextRedact]_vars

\* AuditLogger.__init__ decides use_bigquery; the report and the export are
\* missing, the audit log is missing or empty
InitAudit ==
    /\ now = 0
    /\ consent = NoConsentCall
    /\ fs = NoFiles
    /\ redact = Idle
    /\ use_bigquery \in BOOLEAN
    /\ bq = <<>>
    /\ \E log \in {Missing, Holding(<<>>)} :
         logdir = [f \in AuditFiles |->
                      IF f = AUDIT_LOG_FILE THEN log ELSE Missing]
    /\ history = <<>>
    /\ audit = NoAuditCall
    /\ ctime = [p \in AllPaths |-> 0]
    /\ WatchAtRest
    /\ PipelineAtRest

NextAudit ==
    \/ LogFileProcessingEvent
    \/ GenerateComplianceReport
    \/ ExportAuditToCsv

SpecAudit == InitAudit /\ [][NextAudit]_vars

\* the coordinator about to call redact_sensitive_data for a run's event,
\* and then log_file_processing_event with its result
InitHandOver ==
    /\ now = 0
    /\ consent = NoConsentCall
    /\ \E path \in SamplePaths \cup {NoPath},
          contents \in SampleTexts \cup {EmptyText},
          findings \in DetectedFindings :
         \E dom \in SUBSET findings :
           \E consent_results \in [dom -> BOOLEAN] :
             redact = RedactCall(path, contents, findings, consent_results)
    /\ fs \in InitialFiles(redact)
    /\ AuditAtRest
    /\ ctime = [p \in AllPaths |-> 0]
    /\ WatchAtRest
    /\ upload = NoUpload
    /\ detect = NoDetect
    /\ \E local_ok \in BOOLEAN :
         run = [NoRun EXCEPT
                   !.stage = "redact",
                   !.event = [RunEvent(Payload(redact.file_path, 0, "scan"))
                                 EXCEPT !.pii_findings = redact.pii_findings,
                                        !.consent_results =
                                            redact.consent_results],
                   !.env.local_ok = local_ok]

NextHandOver == redact_sensitive_data \/ ToAudit

SpecHandOver == InitHandOver /\ [][NextHandOver]_vars

\* the lines a persisted log can hold: entries the audit stage wrote, and
\* lines that are not well-formed entries
PersistedLines ==
    {BlankLine, TruncatedLine, NonObjectLine}
    \cup {JsonLine(AuditEntry(event, 0)) : event \in SampleEvents}

\* the audit stage started over a log left by an earlier process
InitPersisted ==
    /\ now = 0
    /\ consent = NoConsentCall
    /\ fs = NoFiles
    /\ redact = Idle
    /\ use_bigquery = FALSE
    /\ bq = <<>>
    /\ \E n \in 1..MaxLog :
         \E lines \in [1..n -> PersistedLines] :
           logdir = [f \in AuditFiles |->
                        IF f = AUDIT_LOG_FILE THEN Holding(lines)
                        ELSE Missing]
    /\ history = <<>>
    /\ audit = NoAuditCall
    /\ ctime = [p \in AllPaths |-> 0]
    /\ WatchAtRest
    /\ PipelineAtRest

NextPersisted == GenerateComplianceReport \/ ExportAuditToCsv

SpecPersisted == InitPersisted /\ [][NextPersisted]_vars

\* the entries of two runs: a compliant one of user123 and a failed one of
\* u2
RunEntries ==
    {AuditEntry(event, 0) :
        event \in {e \in SampleEvents : e.file_path # NoPath}}

\* logs around the length at which the report starts to cut its list of
\* recent events
LongLogs ==
    UNION {[1..n -> {JsonLine(entry) : entry \in RunEntries}] :
              n \in (RecentEvents - 1)..(RecentEvents + MaxExtra)}

\* the audit stage started over a long log, to report on it
InitReport ==
    /\ now = 0
    /\ consent = NoConsentCall
    /\ fs = NoFiles
    /\ redact = Idle
    /\ use_bigquery = FALSE
    /\ bq = <<>>
    /\ \E lines \in LongLogs :
         logdir = [f \in AuditFiles |->
                      IF f = AUDIT_LOG_FILE THEN Holding(lines) ELSE Missing]
    /\ history = <<>>
    /\ audit = NoAuditCall
    /\ ctime = [p \in AllPaths |-> 0]
    /\ WatchAtRest
    /\ PipelineAtRest

NextReport == GenerateComplianceReport

SpecReport == InitReport /\ [][NextReport]_vars

\* the observer's lifecycle: no watched directory yet, no observer
InitLifecycle ==
    /\ now = 0
    /\ consent = NoConsentCall
    /\ fs = [p \in WatchPaths |-> Absent]
    /\ redact = Idle
    /\ AuditAtRest
    /\ ctime = [p \in WatchPaths |-> 0]
    /\ WatchAtRest
    /\ PipelineAtRest

NextLifecycle ==
    \/ start_file_monitoring
    \/ stop_file_monitoring
    \/ FileDropped
    \/ on_created
    \/ on_modified
    \/ MonitorDirMissing
    \/ Tick

SpecLifecycle == InitLifecycle /\ [][NextLifecycle]_vars

\* the slot between the handler and monitor_watched_directory: monitoring
\* has been started, the watched directory is empty
InitWatch ==
    /\ now = 0
    /\ consent = NoConsentCall
    /\ fs = [p \in WatchPaths |-> IF p = WatchedDir THEN Directory ELSE Absent]
    /\ redact = Idle
    /\ AuditAtRest
    /\ ctime = [p \in WatchPaths |-> 0]
    /\ inotify = <<>>
    /\ observer = 1
    /\ running = {1}
    /\ latest_event = NoEvent
    /\ monitor = MonitorIdle
    /\ lifecycle = Reply("start", "monitoring_started")
    /\ recorded = <<>>
    /\ returned = <<>>
    /\ PipelineAtRest

NextWatch ==
    \/ FileDropped
    \/ on_created
    \/ on_modified
    \/ MonitorRead
    \/ MonitorClear
    \/ MonitorScan
    \/ Tick

SpecWatch == InitWatch /\ [][NextWatch]_vars

\* the file a run starts from, "watched_dir/a.t", and the file upload_file
\* is called with, "a.t"
DroppedFile == Join(WatchedDir, <<"a", ".", "t">>)
SourceFile == <<"a", ".", "t">>

RECURSIVE RedactedChain(_, _)
\* a path and the outputs of up to n redactions, each of the one before
RedactedChain(p, n) ==
    IF n = 0 THEN {p} ELSE {p} \cup RedactedChain(RedactedPath(p), n - 1)

RunPaths ==
    {WatchedDir, SourceFile} \cup RedactedChain(DroppedFile, MaxCalls + 1)

\* a run of the pipeline with monitoring active: a file has just been
\* dropped into the watched directory and its notification is queued, or
\* upload_file is about to be called with a source that exists or not
InitPipeline ==
    /\ now = 0
    /\ consent = NoConsentCall
    /\ redact = Idle
    /\ AuditAtRest
    /\ ctime = [p \in RunPaths |-> 0]
    /\ observer = 1
    /\ running = {1}
    /\ lifecycle = Reply("start", "monitoring_started")
    /\ latest_event = NoEvent
    /\ monitor = MonitorIdle
    /\ recorded = <<>>
    /\ returned = <<>>
    /\ detect = NoDetect
    /\ \E env \in Environments :
         run = [NoRun EXCEPT !.stage = "ingest", !.env = env]
    /\ \E text \in SampleTexts :
         \/ /\ fs = [p \in RunPaths |->
                        IF p = WatchedDir THEN Directory
                        ELSE IF p = DroppedFile THEN File(text)
                        ELSE Absent]
            /\ inotify = <<[kind |-> "created", src_path |-> DroppedFile]>>
            /\ upload = NoUpload
         \/ /\ \E source \in {File(text), Absent} :
                 fs = [p \in RunPaths |->
                          IF p = WatchedDir THEN Directory
                          ELSE IF p = SourceFile THEN source
                          ELSE Absent]
            /\ inotify = <<>>
            /\ upload = UploadCall(SourceFile, "u2")

\* the coordinator calls the ingestion stage when no payload waits
PollMonitor ==
    /\ run.stage = "ingest"
    /\ PendingPayloads = {}
    /\ (MonitorRead \/ MonitorScan)

NextPipeline ==
    \/ on_created
    \/ on_modified
    \/ FileWithdrawn
    \/ upload_file
    \/ PollMonitor
    \/ MonitorClear
    \/ ToDetect
    \/ (run.stage = "detect" /\ DetectData(run.env.engine))
    \/ DetectFailed
    \/ ToConsent
    \/ (run.stage = "consent" /\ VerifyConsent)
    \/ ToRedact
    \/ (run.stage = "redact" /\ RedactInvalid)
    \/ (run.stage = "redact" /\ RedactUnreadable)
    \/ (run.stage = "redact" /\ RedactShortCircuit)
    \/ (run.stage = "redact" /\ RedactWriteWith({run.env.dlp}, {run.env.write}))
    \/ ToAudit
    \/ Tick

SpecPipeline == InitPipeline /\ [][NextPipeline]_vars

---------------------------------------------------------------------------
(* Claims on the consent stage *)

\* the table a call resolved its types from
ResolvingTable(c) ==
    IF UsesPrimary(c.store, c.pii_findings) THEN c.store.data
    ELSE LocalTable(c.user_id)

EffectiveAt(rec, clock) ==
    /\ rec.granted
    /\ \/ rec.valid_until = Unset
       \/ rec.valid_until[1] = "at" /\ rec.valid_until[2] > clock

\* C3: effective-consent rule. Every type resolved from a consent record (the
\* primary record when found, otherwise the local table) is true if and only
\* if the record is granted and its valid_until is unset or strictly later
\* than the current time; valid_until equal to the current time gives false.
C3_EffectiveConsent ==
    (consent.called /\ consent.result.has_results) =>
        \A t \in consent.pii_findings :
            HasEntry(ResolvingTable(consent), t) =>
                consent.result.consent_results[t] =
                    EffectiveAt(ResolvingTable(consent)[t], consent.clock)

---------------------------------------------------------------------------
(* Claims on the redaction stage *)

\* a step in which redact_sensitive_data runs and returns
RedactStep == ~redact.called /\ redact'.called

\* the policy's redact set, from the call's inputs
PolicySet(call) ==
    {t \in call.pii_findings :
        ~(t \in DOMAIN call.consent_results /\ call.consent_results[t])}

\* C2: redaction policy. Whenever the call returns status success, its
\* redacted_pii_types is exactly the set of found types whose consent is
\* false or missing: a subset of pii_findings with no consented type in it.
C2_RedactionPolicy ==
    (redact.called /\ redact.result.status = "success") =>
        /\ redact.result.redacted_pii_types = PolicySet(redact)
        /\ redact.result.redacted_pii_types \subseteq redact.pii_findings
        /\ \A t \in redact.result.redacted_pii_types :
              ~(t \in DOMAIN redact.consent_results
                /\ redact.consent_results[t])

\* C2 witness: a successful redaction of two found types, one consented and
\* kept, one with no entry in consent_results and redacted
C2_Witness ==
    /\ redact.called
    /\ redact.result.status = "success"
    /\ \E t \in redact.pii_findings :
          /\ t \notin DOMAIN redact.consent_results
          /\ t \in redact.result.redacted_pii_types
    /\ \E t \in redact.pii_findings :
          /\ t \in DOMAIN redact.consent_results
          /\ redact.consent_results[t]
          /\ t \notin redact.result.redacted_pii_types

\* the short-circuit result: the input path, no type redacted, success
ShortCircuitResult(call) ==
    /\ call.result.status = "success"
    /\ call.result.redacted_file_path = call.file_path
    /\ call.result.redacted_pii_types = {}

\* validation passes and the contents are at hand: file_path is given, and
\* contents are supplied or the file exists and can be read
InputUsable(call, files) ==
    /\ call.file_path # NoPath
    /\ \/ call.file_contents # EmptyText
       \/ /\ call.file_path \in DOMAIN files
          /\ files[call.file_path].kind = "file"

\* C4 as stated, for calls that name a file_path: whenever the set of found
\* types lacking consent is empty, the call returns the input path, no
\* redacted type and status success, and leaves every file as it was.
C4_Original ==
    [][(RedactStep /\ redact.file_path # NoPath /\ PolicySet(redact) = {}) =>
          (ShortCircuitResult(redact') /\ fs' = fs)]_vars

\* C4 amended: with an empty redact set the call writes no file; it returns
\* the short-circuit result (input path, no redacted type, success) when
\* file_path is given and contents are supplied or the file can be read, and
\* an error result otherwise.
C4_ShortCircuit ==
    [][(RedactStep /\ PolicySet(redact) = {}) =>
          /\ fs' = fs
          /\ redact'.written = Null
          /\ InputUsable(redact, fs) => ShortCircuitResult(redact')
          /\ ~InputUsable(redact, fs) => redact'.result.error]_vars

\* C4 witness: every found type has consent, the file exists, and the call
\* has returned its input path
C4_Witness ==
    /\ redact.called
    /\ redact.pii_findings # {}
    /\ PolicySet(redact) = {}
    /\ redact.file_contents = EmptyText
    /\ redact.via = "shortcut"
    /\ redact.result.redacted_file_path = redact.file_path
    /\ Exists(fs, redact.file_path)

\* C5: the original file is never mutated. In every call, whatever its
\* outcome, the path opened for writing differs from file_path and the file
\* at file_path is after the call what it was before.
C5_OriginalUntouched ==
    [][RedactStep =>
          /\ redact'.written # redact.file_path
          /\ redact.file_path \in DOMAIN fs =>
                fs'[redact.file_path] = fs[redact.file_path]]_vars

\* C5 witness: a redaction read the file at file_path, wrote a masked text
\* to another path, and the original still holds the unmasked text
C5_Witness ==
    /\ redact.called
    /\ redact.result.status = "success"
    /\ redact.file_contents = EmptyText
    /\ redact.written # Null
    /\ fs[redact.written].kind = "file"
    /\ fs[redact.file_path].kind = "file"
    /\ fs[redact.written].text # fs[redact.file_path].text

\* the primary service failed: not configured, client or call raised
PrimaryFailed(call) ==
    call.dlp \in {"no_project", "client_fails", "call_raises"}

\* the text the call worked on
ContentsOf(call, files) ==
    IF call.file_contents # EmptyText THEN call.file_contents
    ELSE files[call.file_path].text

\* the call succeeded with the pattern-based masker's output in its file
MaskerOutput(call, files) ==
    /\ call.result.status = "success"
    /\ ~call.result.error
    /\ call.result.redacted_file_path # call.file_path
    /\ \E pii_to_redact \in Orders(PolicySet(call)) :
          files[call.result.redacted_file_path] =
              File(simple_redact_content(ContentsOf(call, files),
                                         pii_to_redact))

\* C6 as stated: whenever the redact set is non-empty and the primary
\* service fails, the call returns status success with the output of the
\* pattern-based masker.
C6_Original ==
    (redact.called /\ PrimaryFailed(redact)) => MaskerOutput(redact, fs)

\* C6 amended: when the redact set is non-empty and the primary service
\* fails, the call returns status success with the masker's output provided
\* the output file can be written; the only error result on this path is the
\* failed write of the output, never the failure of the primary service.
C6_Degradation ==
    (redact.called /\ PrimaryFailed(redact)) =>
        /\ PolicySet(redact) # {}
        /\ redact.write = "ok" => MaskerOutput(redact, fs)
        /\ redact.write # "ok" =>
              redact.result.status = "error" /\ redact.result.error

\* C6 witness: the deidentify call raised and the masker's output, with a
\* mask in it, is in the output file
C6_Witness ==
    /\ redact.called
    /\ redact.dlp = "call_raises"
    /\ redact.result.status = "success"
    /\ \E i \in 1..Len(fs[redact.written].text) :
          fs[redact.written].text[i] = FallbackMask

---------------------------------------------------------------------------
(* Claims on the audit stage *)

\* the lines of the local audit log (none while the file is missing)
LogLines(dir) == dir[AUDIT_LOG_FILE].lines

\* the entry is the last line of the local audit log
LastInLocalLog(entry) ==
    /\ LogLines(logdir) # <<>>
    /\ LogLines(logdir)[Len(LogLines(logdir))] = JsonLine(entry)

\* the entry is stored in the primary sink or in the local log
Stored(entry) ==
    \/ \E i \in 1..Len(bq) : bq[i] = entry
    \/ \E i \in 1..Len(LogLines(logdir)) :
          LogLines(logdir)[i] = JsonLine(entry)

\* C7: audit fallback never loses the event. When the primary sink is
\* enabled and the insert fails, the entry is appended to the local log; a
\* record call leaves the entry stored in some sink or returns audit_logged
\* false, and it is stored whenever the local append can succeed.
C7_AuditFallback ==
    audit.op = "log" =>
        /\ (use_bigquery /\ audit.insert # "ok" /\ audit.local_ok) =>
              LastInLocalLog(audit.audit_entry)
        /\ audit.audit_logged => Stored(audit.audit_entry)
        /\ audit.local_ok => Stored(audit.audit_entry)

\* the number of record calls so far that returned audit_logged = true
Acknowledged ==
    Cardinality({i \in 1..Len(history) : history[i].audit_logged})

\* C8: audit round-trip. A report without user filter counts every entry
\* whose record call returned audit_logged = true, whether the primary sink
\* or the local log took it: with n such entries its total is n.
C8_RoundTrip ==
    (audit.op = "report" /\ audit.report_generated
                         /\ audit.user_id = NoUser) =>
        audit.compliance_report.total_files_processed = Acknowledged

\* C9: every audit entry built by log_file_processing_event is "compliant"
\* if and only if its processing_status is "success", and "non_compliant"
\* otherwise, whatever redaction result was passed in.
C9_ComplianceDerived ==
    audit.op = "log" =>
        /\ audit.audit_entry.compliance_status
              \in {"compliant", "non_compliant"}
        /\ audit.audit_entry.compliance_status = "compliant" <=>
              audit.audit_entry.processing_status = "success"
        /\ \A i \in 1..Len(history) :
              history[i].entry.compliance_status =
                  IF history[i].entry.processing_status = "success"
                  THEN "compliant" ELSE "non_compliant"

\* C9 witness: an entry for a redaction result without a status field
\* (processing_status "unknown", non_compliant) after a compliant one
C9_Witness ==
    /\ audit.op = "log"
    /\ audit.event.redaction_result.status = "none"
    /\ audit.audit_entry.processing_status = "unknown"
    /\ audit.audit_entry.compliance_status = "non_compliant"
    /\ \E i \in 1..Len(history) :
          history[i].entry.compliance_status = "compliant"

\* s is a prefix of t
IsPrefix(s, t) == Len(s) <= Len(t) /\ SubSeq(t, 1, Len(s)) = s

\* C10: append-only audit log. Across every call of the audit stage the
\* local log before is a prefix of the log after; a successful local record
\* adds exactly its entry at the end; generate_compliance_report and
\* export_audit_to_csv leave the log unchanged.
C10_AppendOnly ==
    [][/\ IsPrefix(LogLines(logdir), LogLines(logdir'))
       /\ (audit'.op = "log" /\ ~use_bigquery /\ audit'.audit_logged) =>
             LogLines(logdir') =
                 Append(LogLines(logdir), JsonLine(audit'.audit_entry))
       /\ audit'.op \in {"report", "export"} =>
             logdir'[AUDIT_LOG_FILE] = logdir[AUDIT_LOG_FILE]]_vars

---------------------------------------------------------------------------
(* Claims on the ingestion stage *)

\* the last element of a non-empty sequence
Last(seq) == seq[Len(seq)]

\* the payloads returned so far that were read from the slot
FromSlot == {j \in 1..Len(returned) : returned[j].payload.from = "event"}

\* C11: consume-once ingestion. Once a monitor call has returned the file of
\* a pending event, the slot is empty until the handler records again, and no
\* later monitor call returns that file unless an event for it was recorded
\* between the two returns.
C11_ConsumeOnce ==
    /\ (/\ monitor.pc = "idle"
        /\ returned # <<>>
        /\ Last(returned).payload.from = "event"
        /\ Last(returned).at = Len(recorded)) => latest_event = NoEvent
    /\ \A i \in FromSlot, j \in 1..Len(returned) :
          (i < j /\ returned[j].payload.file_path =
                       returned[i].payload.file_path) =>
              \E k \in (returned[i].at + 1)..returned[j].at :
                  recorded[k].event.file_path = returned[i].payload.file_path

\* the values the slot can hold: nothing, or one event
SlotValues ==
    {NoEvent} \cup
    [event_type : {"file_created", "file_modified"},
     file_path : WatchedFiles, timestamp : Times]

\* event k was overwritten: the next event was recorded before any monitor
\* call read the slot
Overwritten(k) ==
    k < Len(recorded) /\ recorded[k + 1].begun = recorded[k].begun

\* C12: at most one pending event. The slot holds nothing or one event; an
\* event recorded after the last monitor call is the one the slot holds,
\* whatever was recorded before it; a monitor call that finds the slot full
\* returns file_path and timestamp of the event recorded last; an event
\* overwritten before any monitor call read it is never returned; and no two
\* calls return the same recorded event (nothing is queued).
C12_AtMostOnePending ==
    /\ latest_event \in SlotValues
    /\ (/\ monitor.pc = "idle"
        /\ recorded # <<>>
        /\ Last(recorded).done = Done) => latest_event = Last(recorded).event
    /\ \A j \in FromSlot :
          /\ returned[j].read_at \in 1..Len(recorded)
          /\ returned[j].payload.file_path =
                recorded[returned[j].read_at].event.file_path
          /\ returned[j].payload.timestamp =
                recorded[returned[j].read_at].event.timestamp
    /\ \A k \in 1..Len(recorded), j \in FromSlot :
          Overwritten(k) => returned[j].read_at # k
    /\ \A i, j \in FromSlot :
          i < j => returned[i].read_at < returned[j].read_at

\* C12 witness: two events for different files were recorded at different
\* times with no monitor call between them, and the next call returned the
\* second one's file_path and timestamp
C12_Witness ==
    /\ Len(recorded) >= 2
    /\ Overwritten(1)
    /\ recorded[1].event.file_path # recorded[2].event.file_path
    /\ recorded[1].event.timestamp # recorded[2].event.timestamp
    /\ \E j \in FromSlot :
          /\ returned[j].read_at = 2
          /\ returned[j].payload.file_path = recorded[2].event.file_path
          /\ returned[j].payload.timestamp = recorded[2].event.timestamp

\* a step in which start_file_monitoring, or stop_file_monitoring, returns
\* a result other than the one of the call before it
StartReturns == lifecycle' # lifecycle /\ lifecycle'.op = "start"
StopReturns == lifecycle' # lifecycle /\ lifecycle'.op = "stop"

\* C13: monitoring lifecycle. start returns "monitoring_started" exactly
\* when no observer was active, and then one is; otherwise it returns
\* "already_monitoring" and leaves the observer as it was. stop returns
\* "monitoring_stopped" exactly when an observer was active, and then none
\* is; otherwise it returns "not_monitoring" and changes nothing. At most one
\* observer is ever active, and it is the one the global holds.
C13_Lifecycle ==
    [][/\ StartReturns =>
             IF running = {}
             THEN /\ lifecycle'.status = "monitoring_started"
                  /\ Cardinality(running') = 1
             ELSE /\ lifecycle'.status = "already_monitoring"
                  /\ UNCHANGED <<observer, running, inotify, latest_event>>
       /\ StopReturns =>
             IF running # {}
             THEN /\ lifecycle'.status = "monitoring_stopped"
                  /\ running' = {}
             ELSE /\ lifecycle'.status = "not_monitoring"
                  /\ UNCHANGED <<observer, running, inotify, latest_event>>
       /\ Cardinality(running') <= 1
       /\ running' = IF observer' = NoObserver THEN {} ELSE {observer'}]_vars

\* C13 witness: start was called again while the observer was delivering
\* events, and answered "already_monitoring" with the one observer active
C13_Witness ==
    /\ lifecycle = Reply("start", "already_monitoring")
    /\ running = {observer}
    /\ recorded # <<>>

---------------------------------------------------------------------------
(* Claims on the pipeline *)

\* C14: no exception crosses a stage boundary. Every call of upload_file,
\* monitor_watched_directory, detect_data, verify_consent_for_pii_types,
\* redact_sensitive_data and log_file_processing_event returns a result
\* record with success fields or an error field, whatever the state of the
\* file it is given; none raises.
C14_NoException ==
    /\ ~upload.raised
    /\ ~detect.raised
    /\ (detect.called /\ detect.file_path # NoPath) => detect.status = "scanned"
    /\ (upload.called /\ upload.source_path # NoPath) =>
          upload.result.kind = "payload"
    /\ monitor.result.kind \in {"none", "payload", "message", "error"}
    /\ consent.called =>
          (consent.result.error \/ consent.result.has_results)
    /\ redact.called =>
          (redact.result.error \/ redact.result.status = "success")
    /\ audit.op = "log" => audit.audit_logged \in BOOLEAN

\* C15: redaction result status. Every result of redact_sensitive_data has
\* status success or error; a missing file_path, a file that does not exist
\* with no content supplied, and a failed write of the output give status
\* error with an error field; no success result has an error field.
C15_ResultStatus ==
    redact.called =>
        /\ redact.result.status \in {"success", "error"}
        /\ (\/ redact.file_path = NoPath
            \/ redact.file_contents = EmptyText
                  /\ ~Exists(fs, redact.file_path)
            \/ redact.write \in {"open_fails", "write_fails"}) =>
              redact.result.status = "error" /\ redact.result.error
        /\ redact.result.status = "success" => ~redact.result.error

\* the entries of the local log that a report with this user filter is over
Matching(dir, user) ==
    IF user # NoUser THEN FilterUser(ReadAuditLog(dir), user)
    ELSE ReadAuditLog(dir)

\* C16 as stated: a report over zero audit entries (no log file, an empty
\* log, a user filter that matches no entry) is returned with
\* report_generated = true, total_files_processed = 0 and compliance_rate =
\* 0, and is never an error result.
C16_Original ==
    (audit.op = "report" /\ Matching(logdir, audit.user_id) = <<>>) =>
        /\ audit.report_generated
        /\ ~audit.error
        /\ audit.compliance_report.total_files_processed = 0
        /\ audit.compliance_report.compliance_rate = 0

\* C16 amended: over zero audit entries the report has total_files_processed
\* = 0 and compliance_rate = 0, and it is returned with report_generated =
\* true whenever the report artifact can be written; the only error result
\* is the failed write of the artifact, never the division.
C16_ZeroEntries ==
    (audit.op = "report" /\ Matching(logdir, audit.user_id) = <<>>) =>
        /\ audit.write_ok =>
              /\ audit.report_generated
              /\ ~audit.error
              /\ audit.compliance_report.total_files_processed = 0
              /\ audit.compliance_report.compliance_rate = 0
        /\ ~audit.write_ok => ~audit.report_generated /\ audit.error

\* C16 witness: the log holds an entry of another user, the filter matches
\* none, and the report came back generated with rate 0
C16_Witness ==
    /\ audit.op = "report"
    /\ audit.user_id # NoUser
    /\ ReadAuditLog(logdir) # <<>>
    /\ Matching(logdir, audit.user_id) = <<>>
    /\ audit.report_generated
    /\ audit.compliance_report.compliance_rate = 0
    /\ logdir[COMPLIANCE_REPORT_FILE].exists

\* a step in which export_audit_to_csv runs and returns
ExportStep == audit'.op = "export"

\* C17 as stated: with the audit log absent, or holding no parseable entry,
\* the export returns exported = false with an error and creates or
\* overwrites no file; otherwise it returns exported = true with
\* entries_exported equal to the number of entries read.
C17_Original ==
    [][ExportStep =>
          IF ReadAuditLog(logdir) = <<>>
          THEN /\ ~audit'.exported
               /\ audit'.error
               /\ logdir' = logdir
          ELSE /\ audit'.exported
               /\ audit'.entries_exported = Len(ReadAuditLog(logdir))]_vars

\* C17 amended: with the audit log absent, or holding no parseable entry,
\* the export returns exported = false with an error and creates or
\* overwrites no file; otherwise it returns exported = true with
\* entries_exported equal to the number of entries read provided output_file
\* can be written, and exported = false with an error if it cannot.
C17_ExportExplicit ==
    [][ExportStep =>
          IF ReadAuditLog(logdir) = <<>>
          THEN /\ ~audit'.exported
               /\ audit'.error
               /\ logdir' = logdir
          ELSE /\ audit'.write_ok =>
                     /\ audit'.exported
                     /\ ~audit'.error
                     /\ audit'.entries_exported = Len(ReadAuditLog(logdir))
               /\ ~audit'.write_ok =>
                     ~audit'.exported /\ audit'.error]_vars

\* C17 witness: the log exists and holds no parseable entry, the export was
\* refused with an error, and no export file exists
C17_Witness ==
    /\ audit.op = "export"
    /\ audit.write_ok
    /\ logdir[AUDIT_LOG_FILE].exists
    /\ ReadAuditLog(logdir) = <<>>
    /\ ~audit.exported
    /\ audit.error
    /\ ~logdir[DefaultExportFile].exists

\* C18: the audit record carries ingestion time. The timestamp of the entry
\* log_file_processing_event writes for a run equals the timestamp of the
\* ingestion event that started the run.
C18_IngestionTime ==
    audit.op = "log" =>
        audit.audit_entry.timestamp = audit.event.timestamp

\* C19: redacted_file_path is null whenever no redaction occurred. Every
\* result of redact_sensitive_data with no redacted type has
\* redacted_file_path = null, and so has the audit entry built from it.
C19_NullPath ==
    /\ (redact.called /\ redact.result.redacted_pii_types = {}) =>
          redact.result.redacted_file_path = Null
    /\ (audit.op = "log"
          /\ audit.event.redaction_result.redacted_pii_types = {}) =>
          audit.audit_entry.redacted_file_path = Null

\* the path names an output of redaction: it carries the suffix marker
RedactionOutput(p) == \E i \in 1..Len(p) : p[i] = Marker

\* C20: control flows strictly forward. With monitoring active, the output
\* file redaction writes next to its source never becomes a pending
\* ingestion event and is never returned by monitor_watched_directory, so
\* the run of one dropped file starts no further run.
C20_StrictlyForward ==
    /\ ~RedactionOutput(latest_event.file_path)
    /\ \A j \in 1..Len(returned) :
          ~RedactionOutput(returned[j].payload.file_path)

---------------------------------------------------------------------------
(* Claims on the fallback masker *)

\* the call succeeded with a file written by the pattern-based masker
FallbackWrote(call) ==
    /\ call.called
    /\ call.via = "fallback"
    /\ call.result.status = "success"

\* C21: selective masking on the fallback path. In the file the
\* pattern-based masker wrote, every occurrence of a type of the redact set
\* that has a pattern is replaced by the fixed mask, every occurrence of a
\* found type with consent true stands as it stood in the input, and
\* redacted_pii_types is the redact set.
C21_SelectiveMasking ==
    FallbackWrote(redact) =>
        LET input == ContentsOf(redact, fs)
            output == fs[redact.written].text
        IN  /\ redact.result.redacted_pii_types = PolicySet(redact)
            /\ Len(output) = Len(input)
            /\ \A i \in 1..Len(input) :
                  /\ TypeOf(input[i]) \in PolicySet(redact) \cap Patterns =>
                        output[i] = FallbackMask
                  /\ (/\ TypeOf(input[i]) \in redact.pii_findings
                      /\ ConsentGet(redact.consent_results, TypeOf(input[i])))
                        => output[i] = input[i]

---------------------------------------------------------------------------
(* Claims on persisted audit data *)

\* the well-formed entries of the local log: the objects among the values
\* json.loads returns for its lines
WellFormed(dir) ==
    SelectSeq(ReadAuditLog(dir), LAMBDA entry : entry # NonObject)

\* a step in which generate_compliance_report runs and returns
ReportStep == audit'.op = "report"

\* C22: malformed persisted data is skipped, not fatal. Over a log in which
\* some lines are blank, cut short or JSON text that is not an object, a
\* report whose file can be written is returned with report_generated = true
\* and counts exactly the well-formed entries that match the filter, and an
\* export whose file can be written returns exported = true with
\* entries_exported equal to the number of well-formed entries, if any.
C22_MalformedSkipped ==
    [][/\ (ReportStep /\ audit'.write_ok) =>
             /\ audit'.report_generated
             /\ ~audit'.error
             /\ audit'.compliance_report.total_files_processed =
                   Len(IF audit'.user_id # NoUser
                       THEN FilterUser(WellFormed(logdir), audit'.user_id)
                       ELSE WellFormed(logdir))
       /\ (ExportStep /\ audit'.write_ok /\ WellFormed(logdir) # <<>>) =>
             /\ audit'.exported
             /\ ~audit'.error
             /\ audit'.entries_exported = Len(WellFormed(logdir))]_vars

---------------------------------------------------------------------------
(* Claims on runs without findings and on unknown types *)

\* C23: an empty detection result is not an error downstream. In a run
\* whose detection found no PII type in the file of a known user, the
\* consent check returns empty consent_results and no error; redaction of
\* the file, while it can be read, returns status success with the original
\* path; and the run is audited as compliant.
C23_EmptyFindings ==
    /\ (/\ run.stage \in {"consent", "redact"}
        /\ consent.called
        /\ consent.user_id # NoUser
        /\ consent.pii_findings = {}) =>
          /\ ~consent.result.error
          /\ consent.result.consent_results = <<>>
    /\ (/\ redact.called
        /\ redact.pii_findings = {}
        /\ InputUsable(redact, fs)) =>
          /\ redact.result.status = "success"
          /\ redact.result.redacted_file_path = redact.file_path
    /\ (/\ audit.op = "log"
        /\ audit.event.pii_findings = {}
        /\ InputUsable(redact, fs)) =>
          audit.audit_entry.compliance_status = "compliant"

\* the types the claim names as having no fallback pattern
Unmasked == {"US_DRIVER_LICENSE", "US_PASSPORT"}

\* a step in which log_file_processing_event records the run's event
AuditStep == audit' # audit /\ audit'.op = "log"

---------------------------------------------------------------------------
(* Claims on the report *)

\* the last n elements of a sequence (all of it if it has no more)
LastOf(seq, n) ==
    [i \in 1..(IF Len(seq) < n THEN Len(seq) ELSE n) |->
        seq[Len(seq) - (IF Len(seq) < n THEN Len(seq) ELSE n) + i]]

\* C25: report aggregates match the log. A report that is returned has
\* total_files_processed = the number of log entries matching the user
\* filter, compliant_files = the number of those with compliance_status
\* compliant, compliant_files + non_compliant_files = total_files_processed,
\* pii_types_detected and pii_types_redacted the unions of these fields over
\* the matching entries, and recent_processing_events the last min(10,
\* total) matching entries in the order of the log.
C25_Aggregates ==
    (audit.op = "report" /\ audit.report_generated) =>
        LET entries == Matching(logdir, audit.user_id)
            report == audit.compliance_report
            total == Len(entries)
        IN  /\ report.total_files_processed = total
            /\ report.compliant_files =
                  Cardinality({i \in 1..total :
                      entries[i].compliance_status = "compliant"})
            /\ report.compliant_files + report.non_compliant_files = total
            /\ report.pii_types_detected =
                  UNION {entries[i].pii_types_detected : i \in 1..total}
            /\ report.pii_types_redacted =
                  UNION {entries[i].redacted_pii_types : i \in 1..total}
            /\ report.recent_processing_events = LastOf(entries, 10)

\* C25 witness: a report over more than ten matching entries, compliant and
\* not, whose list of recent events holds ten and starts with the entry that
\* differs from the first of the log
C25_Witness ==
    /\ audit.op = "report"
    /\ audit.report_generated
    /\ audit.compliance_report.total_files_processed > 10
    /\ audit.compliance_report.compliant_files > 0
    /\ audit.compliance_report.non_compliant_files > 0
    /\ Len(audit.compliance_report.recent_processing_events) = 10
    /\ audit.compliance_report.recent_processing_events[1] #
          ReadAuditLog(logdir)[1]

---------------------------------------------------------------------------
(* Claims on attribution and on the slot hand-off *)

\* upload_file has copied the file and returned its payload
Uploaded == upload.called /\ ~upload.raised /\ upload.source_path # NoPath

\* C26: user attribution is preserved. After upload_file(source, u), the
\* payload it returns and every payload monitor_watched_directory returns
\* for the copied file, from the slot or from the directory scan, carry
\* user_id = u; so does the consent check of a run on that file.
C26_Attribution ==
    Uploaded =>
        /\ upload.result.user_id = upload.user_id
        /\ \A j \in 1..Len(returned) :
              returned[j].payload.file_path = upload.result.file_path =>
                  returned[j].payload.user_id = upload.user_id
        /\ (/\ run.stage \in {"detect", "consent", "redact"}
            /\ run.event.file_path = upload.result.file_path) =>
              run.event.user_id = upload.user_id

\* C27: no event is silently dropped by the slot hand-off. Under every
\* interleaving of the handler with the read and the clear of
\* monitor_watched_directory, the event recorded last is still pending in
\* the slot, or is the one a monitor call has read and is about to return,
\* or was returned by a monitor call; hence every earlier event was returned
\* or overwritten by one of which this holds, and the clear never erases an
\* event no call has read.
C27_NoSilentDrop ==
    recorded # <<>> =>
        \/ latest_event = Last(recorded).event
        \/ monitor.pc = "clearing" /\ monitor.read_at = Len(recorded)
        \/ \E j \in FromSlot : returned[j].read_at = Len(recorded)

=============================================================================
